---- MODULE Spec2Model ----
(***************************************************************************)
(* Scoped role-based access control of the form builder's auth backend:    *)
(* the permission_groups table, grant_permission / revoke_permission, and  *)
(* the check_permission evaluator with its derived views                   *)
(* (backend/auth/permissions_utils.py, backend/auth/permissions_firestore.py).*)
(***************************************************************************)
EXTENDS Integers, Sequences, FiniteSets, TLC

\* ------------------------------------------------------------------------
\* Bounds of the model
\* ------------------------------------------------------------------------
\* rows the permission_groups table may hold in the lifecycle specification
MaxGrants == 3
\* rows of the tables the evaluator specification starts from
MaxPerms == 2
\* last instant of the clock (datetime.utcnow()) the evaluator is called at
MaxTime == 2

\* Python's None / SQL NULL for string columns
NULL == "NULL"
\* None for a timestamp column; a set timestamp t is <<t>>
NoTime == <<>>

Users == {"u1", "u2"}
Companies == {"A", "B"}
Categories == {"S", "T"}

VARIABLES
    grants,    \* the permission_groups table, rows in insertion order
    now,       \* datetime.utcnow()
    result,    \* what the last call returned
    revoked,   \* ids for which revoke_permission has returned success
    tokens,    \* the tokens issued so far, in order of issue
    sessions,  \* the Firestore collection 'sessions', in order of creation
    logged_out, \* session ids that existed for a user when
               \* revoke_all_user_sessions(user) returned
    hashes,    \* the (password, hash) pairs hash_password has returned
    calls      \* the grant_permission calls in progress, one per caller

\* the state of the token issuer and of the password store, and the calls in
\* progress
authvars == <<tokens, sessions, logged_out, hashes, calls>>

vars ==
    <<grants, now, result, revoked, tokens, sessions, logged_out, hashes, calls>>

\* ------------------------------------------------------------------------
\* PERMISSION_LEVELS and dict.get(level, 0)
\* ------------------------------------------------------------------------
PERMISSION_LEVELS == [view |-> 1, edit |-> 2, admin |-> 3]

LevelNames == DOMAIN PERMISSION_LEVELS

LevelValue(level) ==
    IF level \in DOMAIN PERMISSION_LEVELS THEN PERMISSION_LEVELS[level] ELSE 0

\* ------------------------------------------------------------------------
\* get_user_permissions: the SELECT with its optional, NULL-inclusive filters,
\* ORDER BY granted_at DESC (rows are inserted in granted_at order, so the
\* newest-first order is the reverse of the insertion order)
\* ------------------------------------------------------------------------
Reverse(s) == [i \in 1..Len(s) |-> s[Len(s) + 1 - i]]

RowSelected(row, user_id, company, category, permission_level) ==
    /\ row.user_id = user_id
    /\ (company # NULL => (row.company = company \/ row.company = NULL))
    /\ (category # NULL => (row.category = category \/ row.category = NULL))
    /\ (permission_level # NULL => row.permission_level = permission_level)

get_user_permissions(table, user_id, company, category, permission_level) ==
    LET Sel(row) == RowSelected(row, user_id, company, category, permission_level)
    IN  SelectSeq(Reverse(table), Sel)

\* ------------------------------------------------------------------------
\* check_permission: one iteration of the loop over the fetched rows, then
\* the loop (first match returns True, exhausting the rows returns False)
\* ------------------------------------------------------------------------
\* variants of the skip test: an exact-level test, and one with no expiry test
PermSkipped_ExactLevel(perm, required_level_value, t) ==
    \/ ~perm.is_active
    \/ (perm.expires_at # NoTime /\ perm.expires_at[1] < t)
    \/ LevelValue(perm.permission_level) # required_level_value

PermSkipped_NoExpiry(perm, required_level_value, t) ==
    \/ ~perm.is_active
    \/ LevelValue(perm.permission_level) < required_level_value

\* variant of the skip test that also skips a grant expiring at this instant
PermSkipped_ExpiredAtNow(perm, required_level_value, t) ==
    \/ ~perm.is_active
    \/ (perm.expires_at # NoTime /\ perm.expires_at[1] <= t)
    \/ LevelValue(perm.permission_level) < required_level_value

PermSkipped(perm, required_level_value, t) ==
    \/ ~perm.is_active
    \/ (perm.expires_at # NoTime /\ perm.expires_at[1] < t)
    \/ LevelValue(perm.permission_level) < required_level_value

\* variants of the scope test: no (NULL, NULL) branch; a (company, category)
\* grant that ignores the requested category; a company-wide grant that
\* ignores the requested company
ScopeMatches_NoSuperAdmin(perm_company, perm_category, company, category) ==
    \/ /\ perm_company # NULL /\ perm_category = NULL
       /\ (company = NULL \/ perm_company = company)
    \/ /\ perm_company # NULL /\ perm_category # NULL
       /\ (company = NULL \/ perm_company = company)
       /\ (category = NULL \/ perm_category = category)

ScopeMatches_AnyCategory(perm_company, perm_category, company, category) ==
    \/ (perm_company = NULL /\ perm_category = NULL)
    \/ /\ perm_company # NULL /\ perm_category = NULL
       /\ (company = NULL \/ perm_company = company)
    \/ /\ perm_company # NULL /\ perm_category # NULL
       /\ (company = NULL \/ perm_company = company)

ScopeMatches_AnyCompany(perm_company, perm_category, company, category) ==
    \/ (perm_company = NULL /\ perm_category = NULL)
    \/ (perm_company # NULL /\ perm_category = NULL)
    \/ /\ perm_company # NULL /\ perm_category # NULL
       /\ (company = NULL \/ perm_company = company)
       /\ (category = NULL \/ perm_category = category)

ScopeMatches(perm_company, perm_category, company, category) ==
    \/ (perm_company = NULL /\ perm_category = NULL)
    \/ /\ perm_company # NULL /\ perm_category = NULL
       /\ (company = NULL \/ perm_company = company)
    \/ /\ perm_company # NULL /\ perm_category # NULL
       /\ (company = NULL \/ perm_company = company)
       /\ (category = NULL \/ perm_category = category)

PermAllows(perm, required_level_value, company, category, t) ==
    /\ ~PermSkipped(perm, required_level_value, t)
    /\ ScopeMatches(perm.company, perm.category, company, category)

\* an expires_at that is no timestamp: a string datetime.fromisoformat rejects
BadTime == <<"not", "a timestamp">>

\* the evaluation of a row raises: the row is active and its expires_at can
\* be neither parsed nor compared with the clock
Raises(perm) == perm.is_active /\ Len(perm.expires_at) > 1

\* variant of the except clause that allows
check_permission_except_Allows == TRUE

\* except Exception: return False
check_permission_except == FALSE

RECURSIVE CheckLoop(_, _, _, _, _, _)
CheckLoop(permissions, i, required_level_value, company, category, t) ==
    IF i > Len(permissions) THEN FALSE
    ELSE IF Raises(permissions[i]) THEN check_permission_except
    ELSE IF PermAllows(permissions[i], required_level_value, company, category, t)
         THEN TRUE
         ELSE CheckLoop(permissions, i + 1, required_level_value, company, category, t)

check_permission(table, user_id, required_level, company, category, t) ==
    LET permissions == get_user_permissions(table, user_id, NULL, NULL, NULL)
    IN  IF permissions = <<>> THEN FALSE
        ELSE CheckLoop(permissions, 1, LevelValue(required_level), company, category, t)

is_super_admin(table, user_id, t) ==
    check_permission(table, user_id, "admin", NULL, NULL, t)

\* ------------------------------------------------------------------------
\* get_highest_permission_level: the loop keeps the first row of the highest
\* value among the active rows; it does not read expires_at
\* ------------------------------------------------------------------------
RECURSIVE HighestLoop(_, _, _, _)
HighestLoop(permissions, i, highest_value, highest_level) ==
    IF i > Len(permissions) THEN highest_level
    ELSE LET perm == permissions[i]
             level_value == LevelValue(perm.permission_level)
         IN  IF ~perm.is_active
             THEN HighestLoop(permissions, i + 1, highest_value, highest_level)
             ELSE IF level_value > highest_value
                  THEN HighestLoop(permissions, i + 1, level_value,
                                   perm.permission_level)
                  ELSE HighestLoop(permissions, i + 1, highest_value, highest_level)

get_highest_permission_level(table, user_id) ==
    LET permissions == get_user_permissions(table, user_id, NULL, NULL, NULL)
    IN  IF permissions = <<>> THEN NULL
        ELSE HighestLoop(permissions, 1, 0, NULL)

\* ------------------------------------------------------------------------
\* Rows
\* ------------------------------------------------------------------------
NewGrant(permission_id, user_id, company, category, permission_level, granted_by, t, expires_at, notes) ==
    [permission_id |-> permission_id, user_id |-> user_id, company |-> company,
     category |-> category, permission_level |-> permission_level,
     granted_by |-> granted_by, granted_at |-> t, expires_at |-> expires_at,
     is_active |-> TRUE, revoked_by |-> NULL, revoked_at |-> NoTime,
     notes |-> notes]

\* create_admin.py: the bootstrap grant that makes the first user super admin
grant_super_admin_permission(permission_id, user_id, t) ==
    NewGrant(permission_id, user_id, NULL, NULL, "admin", "system", t, NoTime,
             "bootstrap")

\* uuid.uuid4(): an id no row has yet
FreshId(table) == Len(table) + 1

\* ------------------------------------------------------------------------
\* grant_permission
\* ------------------------------------------------------------------------
GrantOutcome(table, user_id, permission_level, granted_by, company, category, t) ==
    IF permission_level \notin DOMAIN PERMISSION_LEVELS THEN "InvalidLevel"
    ELSE IF ~check_permission(table, granted_by, "admin", company, category, t)
         THEN "Forbidden"
    ELSE IF get_user_permissions(table, user_id, company, category,
                                 permission_level) # <<>>
         THEN "Duplicate"
    ELSE "ok"

GrantPermission(user_id, permission_level, granted_by, company, category, expires_at, notes) ==
    LET outcome == GrantOutcome(grants, user_id, permission_level, granted_by,
                                company, category, now)
        id == FreshId(grants)
    IN  /\ Len(grants) < MaxGrants
        /\ IF outcome = "ok"
           THEN /\ grants' = Append(grants,
                        NewGrant(id, user_id, company, category, permission_level,
                                 granted_by, now, expires_at, notes))
                /\ result' = [op |-> "grant", success |-> TRUE,
                              permission_id |-> id, error |-> NULL]
           ELSE /\ grants' = grants
                /\ result' = [op |-> "grant", success |-> FALSE,
                              permission_id |-> 0, error |-> outcome]
        /\ UNCHANGED <<now, revoked, authvars>>

\* ------------------------------------------------------------------------
\* revoke_permission: UPDATE ... WHERE permission_id = @permission_id
\* ------------------------------------------------------------------------
Coalesce(a, b) == IF a # NULL THEN a ELSE b

\* variant of the UPDATE that stamps the revoker and leaves is_active alone
RevokeUpdate_KeepsActive(table, permission_id, revoked_by, notes, t) ==
    [i \in 1..Len(table) |->
        IF table[i].permission_id = permission_id
        THEN [table[i] EXCEPT !.revoked_by = revoked_by,
                              !.revoked_at = <<t>>,
                              !.notes = Coalesce(notes, table[i].notes)]
        ELSE table[i]]

RevokeUpdate(table, permission_id, revoked_by, notes, t) ==
    [i \in 1..Len(table) |->
        IF table[i].permission_id = permission_id
        THEN [table[i] EXCEPT !.is_active = FALSE,
                              !.revoked_by = revoked_by,
                              !.revoked_at = <<t>>,
                              !.notes = Coalesce(notes, table[i].notes)]
        ELSE table[i]]

RowsAffected(table, permission_id) ==
    Cardinality({i \in 1..Len(table) : table[i].permission_id = permission_id})

RevokePermission(permission_id, revoked_by, notes) ==
    LET rows_affected == RowsAffected(grants, permission_id)
    IN  /\ grants' = RevokeUpdate(grants, permission_id, revoked_by, notes, now)
        /\ IF rows_affected = 0
           THEN /\ result' = [op |-> "revoke", success |-> FALSE,
                              permission_id |-> permission_id, error |-> "NotFound"]
                /\ revoked' = revoked
           ELSE /\ result' = [op |-> "revoke", success |-> TRUE,
                              permission_id |-> permission_id, error |-> NULL]
                /\ revoked' = revoked \cup {permission_id}
        /\ UNCHANGED <<now, authvars>>

\* ------------------------------------------------------------------------
\* Lifecycle specification: the table after create_admin.py, then any
\* sequence of grant_permission and revoke_permission calls (at one instant
\* of the clock; expiry is exercised by the evaluator specification)
\* ------------------------------------------------------------------------
\* levels a caller may name; "owner" is not a key of PERMISSION_LEVELS
LevelInputs == {"view", "edit", "admin", "owner"}
GrantLevelInputs == {"view", "admin", "owner"}
CompanyInputs == {NULL, "A", "B"}
CategoryInputs == {NULL, "S"}
NoteInputs == {NULL}
GranteeInputs == {"u2"}

ExpiryInputs == {NoTime}

Init ==
    /\ grants = <<grant_super_admin_permission(1, "u1", 0)>>
    /\ now = 0
    /\ result = [op |-> "none"]
    /\ revoked = {}
    /\ tokens = <<>> /\ sessions = <<>> /\ logged_out = {} /\ hashes = {}
    /\ calls = <<>>

Grant ==
    \E user_id \in GranteeInputs, permission_level \in GrantLevelInputs,
       granted_by \in Users,
       company \in CompanyInputs, category \in CategoryInputs,
       expires_at \in ExpiryInputs, notes \in NoteInputs :
        GrantPermission(user_id, permission_level, granted_by, company, category,
                        expires_at, notes)

Revoke ==
    \E permission_id \in 1..(MaxGrants + 1), revoked_by \in Users,
       notes \in NoteInputs :
        RevokePermission(permission_id, revoked_by, notes)

Next == Grant \/ Revoke

Spec == Init /\ [][Next]_vars

\* ------------------------------------------------------------------------
\* Calls of the evaluator: check_permission and is_super_admin read the table
\* and the clock and change neither
\* ------------------------------------------------------------------------
CheckPermission(user_id, required_level, company, category) ==
    /\ result' = [op |-> "check", user_id |-> user_id,
                  required_level |-> required_level, company |-> company,
                  category |-> category,
                  value |-> check_permission(grants, user_id, required_level,
                                             company, category, now)]
    /\ UNCHANGED <<grants, now, revoked, authvars>>

IsSuperAdmin(user_id) ==
    /\ result' = [op |-> "is_super_admin", user_id |-> user_id,
                  value |-> is_super_admin(grants, user_id, now)]
    /\ UNCHANGED <<grants, now, revoked, authvars>>

GetHighestPermissionLevel(user_id) ==
    /\ result' = [op |-> "highest", user_id |-> user_id,
                  value |-> get_highest_permission_level(grants, user_id)]
    /\ UNCHANGED <<grants, now, revoked, authvars>>

\* ------------------------------------------------------------------------
\* Evaluator specification: any table of up to MaxPerms rows of one user, as
\* grant_permission_direct (grant_permission_cli.py) inserts them at instant 0
\* and revoke_permission leaves them, read at any instant up to MaxTime
\* ------------------------------------------------------------------------
EvalUsers == {"u1"}
EvalCompanies == {NULL, "A", "B"}
EvalCategories == {NULL, "S"}
EvalExpiry == {NoTime, <<1>>}

EvalRows ==
    [user_id : EvalUsers, permission_level : LevelNames, company : EvalCompanies,
     category : EvalCategories, expires_at : EvalExpiry, is_revoked : BOOLEAN]

\* grant_permission_direct: the row is inserted without any check
grant_permission_direct(permission_id, r) ==
    NewGrant(permission_id, r.user_id, r.company, r.category, r.permission_level,
             "system", 0, r.expires_at, NULL)

EvalRow(permission_id, r) ==
    IF r.is_revoked
    THEN RevokeUpdate(<<grant_permission_direct(permission_id, r)>>,
                      permission_id, "u1", NULL, 0)[1]
    ELSE grant_permission_direct(permission_id, r)

\* an expiry date and a revocation on one row add nothing the evaluator reads
EvalShapes == {r \in EvalRows : r.is_revoked => r.expires_at = NoTime}

\* the table whose row i is the shape f[i]
EvalTable(f) == [i \in DOMAIN f |-> EvalRow(i, f[i])]

InitEval ==
    /\ \E n \in 0..MaxPerms : \E f \in [1..n -> EvalShapes] :
           grants = EvalTable(f)
    /\ now \in 0..MaxTime
    /\ result = [op |-> "none"]
    /\ revoked = {i \in 1..Len(grants) : ~grants[i].is_active}
    /\ tokens = <<>> /\ sessions = <<>> /\ logged_out = {} /\ hashes = {}
    /\ calls = <<>>

Check ==
    \E user_id \in EvalUsers, required_level \in LevelInputs,
       company \in {NULL} \cup Companies, category \in {NULL} \cup Categories :
        CheckPermission(user_id, required_level, company, category)

SuperAdmin ==
    \E user_id \in EvalUsers : IsSuperAdmin(user_id)

Highest ==
    \E user_id \in EvalUsers : GetHighestPermissionLevel(user_id)

NextEval == Check \/ SuperAdmin \/ Highest

SpecEval == InitEval /\ [][NextEval]_vars

\* ------------------------------------------------------------------------
\* Failure specification: the evaluator over tables that may hold a row with
\* a malformed expires_at, and over a store whose query may fail
\* ------------------------------------------------------------------------
\* what get_user_permissions has to select from: a query that fails makes it
\* return [] (its except clause), which is what it selects from no row at all
Fetched(table, store_ok) == IF store_ok THEN table ELSE <<>>

CheckPermissionFetch(user_id, required_level, company, category, store_ok) ==
    /\ result' = [op |-> "check", user_id |-> user_id,
                  required_level |-> required_level, company |-> company,
                  category |-> category, store_ok |-> store_ok,
                  value |-> check_permission(Fetched(grants, store_ok), user_id,
                                             required_level, company, category,
                                             now)]
    /\ UNCHANGED <<grants, now, revoked, authvars>>

FailShapes ==
    [user_id : EvalUsers, permission_level : {"view", "admin"},
     company : {NULL, "A"}, category : {NULL}, expires_at : {NoTime, BadTime},
     is_revoked : BOOLEAN]

InitFail ==
    /\ \E n \in 0..MaxPerms : \E f \in [1..n -> FailShapes] :
           grants = EvalTable(f)
    /\ now = 0
    /\ result = [op |-> "none"]
    /\ revoked = {i \in 1..Len(grants) : ~grants[i].is_active}
    /\ tokens = <<>> /\ sessions = <<>> /\ logged_out = {} /\ hashes = {}
    /\ calls = <<>>

CheckFetch ==
    \E user_id \in EvalUsers, required_level \in LevelInputs,
       company \in {NULL} \cup Companies, category \in {NULL},
       store_ok \in BOOLEAN :
        CheckPermissionFetch(user_id, required_level, company, category, store_ok)

NextFail == CheckFetch

SpecFail == InitFail /\ [][NextFail]_vars

\* ------------------------------------------------------------------------
\* Token issuer and verifier (jwt_utils.py) with the session store
\* (firestore_client.py). In the specification of the tokens the clock
\* counts days.
\* ------------------------------------------------------------------------
\* tokens (and so sessions) issued in one behaviour
MaxTokens == 2

\* config.JWT_SECRET_KEY, and a key the server does not hold
JWT_SECRET_KEY == "JWT_SECRET_KEY"

\* config.JWT_EXPIRATION_HOURS (its default) and config.JWT_REFRESH_EXPIRATION_DAYS
JWT_EXPIRATION_HOURS == 24
JWT_REFRESH_EXPIRATION_DAYS == 2
\* timedelta(hours = h) is h / 24 days
HoursPerDay == 24

\* the email address the callers pass along with user_id
Email(user_id) == <<user_id, "example.com">>

\* dict.get(key): NULL stands for None
Get(d, key) == IF key \in DOMAIN d THEN d[key] ELSE NULL

\* HS256: the signature is a function of the payload and of the key
Sign(payload, key) == [alg |-> "HS256", payload |-> payload, key |-> key]

\* jwt.encode
jwt_encode(payload, key) ==
    [kind |-> "jwt", payload |-> payload, signature |-> Sign(payload, key)]

\* hashlib.sha256(token.encode()).hexdigest(): a digest that tells tokens apart
sha256(token) == [sha256 |-> token]

\* the strings that are no JWT: the empty string, and one that does not parse
EmptyToken == [kind |-> "empty"]
GarbageToken == [kind |-> "garbage"]

\* jwt.decode(token, key, algorithms): the parse, then the signature, then exp
jwt_decode(token, key, t) ==
    IF token.kind # "jwt" THEN [raised |-> "DecodeError"]
    ELSE IF token.signature # Sign(token.payload, key)
         THEN [raised |-> "InvalidSignatureError"]
    ELSE IF token.payload.exp <= t THEN [raised |-> "ExpiredSignatureError"]
    ELSE [raised |-> NULL, payload |-> token.payload]

\* additional_claims of generate_access_token: none, or a dict
NoClaims == <<>>

generate_access_token(user_id, email, additional_claims, t, token_id) ==
    LET expiration == t + (JWT_EXPIRATION_HOURS \div HoursPerDay)
        payload == [user_id |-> user_id, email |-> email, type |-> "access",
                    iat |-> t, exp |-> expiration, jti |-> token_id]
    IN  jwt_encode(additional_claims @@ payload, JWT_SECRET_KEY)

\* firestore_client.create_session: the document written under session_id
create_session(session_id, user_id, token_hash, expires_at, t) ==
    [session_id |-> session_id, user_id |-> user_id, token_hash |-> token_hash,
     created_at |-> t, expires_at |-> <<expires_at>>, is_active |-> TRUE]

\* generate_refresh_token: the token, and the session it stores
generate_refresh_token(user_id, email, t, token_id, session_id) ==
    LET expiration == t + JWT_REFRESH_EXPIRATION_DAYS
        payload == [user_id |-> user_id, email |-> email, type |-> "refresh",
                    iat |-> t, exp |-> expiration, jti |-> token_id,
                    sid |-> session_id]
        token == jwt_encode(payload, JWT_SECRET_KEY)
    IN  [token |-> token,
         session |-> create_session(session_id, user_id, sha256(token),
                                    expiration, t)]

\* the names module jwt_utils binds: its imports (lines 7-25) and its
\* functions; a call through any other global name raises NameError
jwt_utils_names ==
    {"jwt", "hashlib", "uuid", "datetime", "timedelta", "Dict", "Any",
     "Optional", "Tuple", "sys", "os", "config", "get_logger", "logger",
     "generate_access_token", "generate_refresh_token", "verify_token",
     "decode_token", "revoke_token", "revoke_all_user_sessions",
     "cleanup_expired_sessions", "_check_session_active"}

\* the rows of the BigQuery table auth.sessions, which _check_session_active
\* queries: sessions are written to Firestore, and nothing inserts rows here
auth_sessions == {}

\* isinstance(expires_at, str) for a TIMESTAMP column of a row execute_query
\* returns: dict(row) holds a datetime object, never a string
IsStr(expires_at) == FALSE

\* variant of the session check that looks nothing up
_check_session_active_NoLookup(session_id, token, t) == TRUE

\* _check_session_active: everything is inside try / except Exception, and
\* the except clause returns False
_check_session_active(session_id, token, t) ==
    LET token_hash == sha256(token)
    IN  IF "execute_query" \notin jwt_utils_names THEN FALSE
        ELSE LET results == {row \in auth_sessions : row.session_id = session_id}
             IN  IF results = {} THEN FALSE
                 ELSE LET session == CHOOSE row \in results : TRUE
                      IN  /\ session.is_active
                          /\ session.token_hash = token_hash
                          /\ ~(/\ session.expires_at # NoTime
                               /\ IsStr(session.expires_at)
                               /\ session.expires_at[1] < t)

InvalidTokenType ==
    [access |-> "Invalid token type (expected access)",
     refresh |-> "Invalid token type (expected refresh)"]

\* what verify_token returns: (is_valid, payload, error_message)
Invalid(error) == [valid |-> FALSE, payload |-> NULL, error |-> error]

\* variant of verify_token that refuses any token of a user one of whose
\* sessions has been revoked
verify_token_ReadsUserSessions(token, token_type, t) ==
    IF token = EmptyToken THEN Invalid("Token is required")
    ELSE LET decoded == jwt_decode(token, JWT_SECRET_KEY, t)
         IN  IF decoded.raised = "ExpiredSignatureError"
             THEN Invalid("Token has expired")
             ELSE IF decoded.raised = "InvalidSignatureError"
             THEN Invalid("Invalid token signature")
             ELSE IF decoded.raised = "DecodeError"
             THEN Invalid("Malformed token")
             ELSE LET payload == decoded.payload
                  IN  IF Get(payload, "type") # token_type
                      THEN Invalid(InvalidTokenType[token_type])
                      ELSE IF token_type = "refresh" /\ "sid" \notin DOMAIN payload
                      THEN Invalid("Invalid refresh token (missing session ID)")
                      ELSE IF \/ /\ token_type = "refresh"
                                 /\ ~_check_session_active(payload.sid, token, t)
                              \/ \E i \in 1..Len(sessions) :
                                     /\ sessions[i].user_id = payload.user_id
                                     /\ ~sessions[i].is_active
                      THEN Invalid("Session has been revoked")
                      ELSE [valid |-> TRUE, payload |-> payload, error |-> NULL]

verify_token(token, token_type, t) ==
    IF token = EmptyToken THEN Invalid("Token is required")
    ELSE LET decoded == jwt_decode(token, JWT_SECRET_KEY, t)
         IN  IF decoded.raised = "ExpiredSignatureError"
             THEN Invalid("Token has expired")
             ELSE IF decoded.raised = "InvalidSignatureError"
             THEN Invalid("Invalid token signature")
             ELSE IF decoded.raised = "DecodeError"
             THEN Invalid("Malformed token")
             ELSE LET payload == decoded.payload
                  IN  IF Get(payload, "type") # token_type
                      THEN Invalid(InvalidTokenType[token_type])
                      ELSE IF token_type = "refresh" /\ "sid" \notin DOMAIN payload
                      THEN Invalid("Invalid refresh token (missing session ID)")
                      ELSE IF /\ token_type = "refresh"
                              /\ ~_check_session_active(payload.sid, token, t)
                      THEN Invalid("Session has been revoked")
                      ELSE [valid |-> TRUE, payload |-> payload, error |-> NULL]

\* variant of the update that flips is_active
RevokedSession_Flips(session, t) ==
    [is_active |-> ~session.is_active, revoked_at |-> <<t>>] @@ session

\* doc_ref.update({'is_active': False, 'revoked_at': now})
RevokedSession(session, t) ==
    [is_active |-> FALSE, revoked_at |-> <<t>>] @@ session

\* firestore_client.revoke_session: an update if the document exists
revoke_session(collection, session_id, t) ==
    [i \in 1..Len(collection) |->
        IF collection[i].session_id = session_id
        THEN RevokedSession(collection[i], t)
        ELSE collection[i]]

\* variant of the bulk revocation that counts every session of the user
revoke_all_user_sessions_firestore_CountsAll(collection, user_id, t) ==
    LET hit == {i \in 1..Len(collection) :
                    collection[i].user_id = user_id /\ collection[i].is_active}
    IN  [collection |-> [i \in 1..Len(collection) |->
                            IF i \in hit THEN RevokedSession(collection[i], t)
                            ELSE collection[i]],
         count |-> Cardinality({i \in 1..Len(collection) :
                                    collection[i].user_id = user_id})]

\* firestore_client.revoke_all_user_sessions_firestore: the query selects the
\* user's active sessions, each is updated and counted
revoke_all_user_sessions_firestore(collection, user_id, t) ==
    LET hit == {i \in 1..Len(collection) :
                    collection[i].user_id = user_id /\ collection[i].is_active}
    IN  [collection |-> [i \in 1..Len(collection) |->
                            IF i \in hit THEN RevokedSession(collection[i], t)
                            ELSE collection[i]],
         count |-> Cardinality(hit)]

\* ------------------------------------------------------------------------
\* The calls of the token issuer and verifier
\* ------------------------------------------------------------------------
GenerateAccessToken(user_id, additional_claims) ==
    /\ Len(tokens) < MaxTokens
    /\ LET token == generate_access_token(user_id, Email(user_id),
                                          additional_claims, now, FreshId(tokens))
       IN  /\ tokens' = Append(tokens, [issued_by |-> "generate_access_token",
                                        token |-> token])
           /\ result' = [op |-> "generate_access_token", token |-> token]
    /\ UNCHANGED <<grants, now, revoked, sessions, logged_out, hashes, calls>>

GenerateRefreshToken(user_id) ==
    /\ Len(tokens) < MaxTokens
    /\ LET issued == generate_refresh_token(user_id, Email(user_id), now,
                                            FreshId(tokens), FreshId(sessions))
       IN  /\ tokens' = Append(tokens, [issued_by |-> "generate_refresh_token",
                                        token |-> issued.token])
           /\ sessions' = Append(sessions, issued.session)
           /\ result' = [op |-> "generate_refresh_token", token |-> issued.token,
                         session_id |-> issued.session.session_id]
    /\ UNCHANGED <<grants, now, revoked, logged_out, hashes, calls>>

VerifyToken(token, token_type) ==
    /\ result' = [op |-> "verify", token |-> token, token_type |-> token_type]
                     @@ verify_token(token, token_type, now)
    /\ UNCHANGED <<grants, now, revoked, tokens, sessions, logged_out, hashes, calls>>

\* revoke_token: revoke_session returns nothing, and True is returned
RevokeToken(session_id, revoked_by) ==
    /\ sessions' = revoke_session(sessions, session_id, now)
    /\ result' = [op |-> "revoke_token", session_id |-> session_id,
                  value |-> TRUE]
    /\ UNCHANGED <<grants, now, revoked, tokens, logged_out, hashes, calls>>

RevokeAllUserSessions(user_id) ==
    LET revocation == revoke_all_user_sessions_firestore(sessions, user_id, now)
    IN  /\ sessions' = revocation.collection
        /\ result' = [op |-> "revoke_all_user_sessions", user_id |-> user_id,
                      value |-> revocation.count]
        /\ logged_out' = logged_out \cup
               {sessions[i].session_id : i \in {j \in 1..Len(sessions) :
                                                   sessions[j].user_id = user_id}}
        /\ UNCHANGED <<grants, now, revoked, tokens, hashes, calls>>

\* cleanup_expired_sessions: get_bigquery_client is a name module jwt_utils
\* does not bind, so the except clause returns 0; were it bound, the DELETE
\* would run on the BigQuery table auth.sessions, not on the Firestore
\* collection
cleanup_expired_sessions(t) ==
    IF "get_bigquery_client" \notin jwt_utils_names THEN 0
    ELSE Cardinality({row \in auth_sessions : row.expires_at[1] < t})

CleanupExpiredSessions ==
    /\ result' = [op |-> "cleanup_expired_sessions",
                  value |-> cleanup_expired_sessions(now)]
    /\ UNCHANGED <<grants, now, revoked, tokens, sessions, logged_out, hashes, calls>>

\* a day passes; no call has returned since
Tick ==
    /\ now < MaxTime
    /\ now' = now + 1
    /\ result' = [op |-> "tick"]
    /\ UNCHANGED <<grants, revoked, tokens, sessions, logged_out, hashes, calls>>

\* ------------------------------------------------------------------------
\* Specification of the tokens: no token and no session at first, then any
\* sequence of issues, verifications and revocations while the days pass
\* ------------------------------------------------------------------------
\* additional_claims a caller may pass: none, or a 'type' claim with the id
\* of a session
ClaimInputs == {NoClaims, [type |-> "refresh", sid |-> 1]}
TokenTypeInputs == {"access", "refresh"}
\* access tokens are issued to one user, refresh tokens to both; revoked_by
\* is only logged
AccessUserInputs == {"u1"}
RevokerInputs == {"u1"}

\* a copy of a token whose payload names the other type, under the signature
\* of the original
Retyped(token) ==
    [token EXCEPT !.payload =
        [type |-> IF token.payload.type = "access" THEN "refresh" ELSE "access"]
            @@ token.payload]

\* what a client may present: an issued token, a copy of the first token
\* issued with an altered payload, the empty string, a string that is no JWT
PresentedTokens ==
    {tokens[i].token : i \in 1..Len(tokens)}
        \cup {Retyped(tokens[i].token) : i \in 1..Len(tokens) \cap {1}}
        \cup {EmptyToken, GarbageToken}

InitTok ==
    /\ grants = <<>>
    /\ now = 0
    /\ result = [op |-> "none"]
    /\ revoked = {}
    /\ tokens = <<>> /\ sessions = <<>> /\ logged_out = {} /\ hashes = {}
    /\ calls = <<>>

IssueAccess ==
    \E user_id \in AccessUserInputs, additional_claims \in ClaimInputs :
        GenerateAccessToken(user_id, additional_claims)

IssueRefresh ==
    \E user_id \in Users : GenerateRefreshToken(user_id)

Verify ==
    \E token \in PresentedTokens, token_type \in TokenTypeInputs :
        VerifyToken(token, token_type)

Logout ==
    \E session_id \in 1..(MaxTokens + 1), revoked_by \in RevokerInputs :
        RevokeToken(session_id, revoked_by)

LogoutEverywhere ==
    \E user_id \in Users : RevokeAllUserSessions(user_id)

NextTok ==
    \/ IssueAccess \/ IssueRefresh \/ Verify \/ Logout \/ LogoutEverywhere
    \/ CleanupExpiredSessions \/ Tick

SpecTok == InitTok /\ [][NextTok]_vars

\* ------------------------------------------------------------------------
\* Password store (password_utils.py) over bcrypt
\* ------------------------------------------------------------------------
\* calls of hash_password in one behaviour
MaxHashes == 2

\* config.BCRYPT_ROUNDS
BCRYPT_ROUNDS == 12

\* password.encode('utf-8'): a password is given by its bytes, as the first 72
\* of them and the bytes that follow (none unless the first 72 are all there)
EmptyPassword == [first72 |-> "", rest |-> ""]
ShortPassword(bytes) == [first72 |-> bytes, rest |-> ""]
LongPassword(rest) == [first72 |-> "seventy-two bytes", rest |-> rest]

\* the bcrypt package: releases before 5.0 hash the first 72 bytes of a longer
\* password, releases from 5.0 on raise ValueError for it
BcryptBuilds == {"truncates", "raises"}

\* bcrypt.gensalt(rounds): 16 random bytes, taken as a value no earlier call
\* has drawn; the cost is carried along with the salt
gensalt(rounds, used) == [rounds |-> rounds, bytes |-> Cardinality(used) + 1]

\* bcrypt.hashpw(password_bytes, salt): the cost, the salt and the digest of
\* the first 72 bytes under that salt and cost
bcrypt_hashpw(password_bytes, salt) ==
    [alg |-> "$2b$", rounds |-> salt.rounds, salt |-> salt.bytes,
     digest |-> [key |-> password_bytes.first72, salt |-> salt.bytes,
                 rounds |-> salt.rounds]]

\* whether the bcrypt call raises for these bytes
BcryptRaises(password_bytes, build) ==
    build = "raises" /\ password_bytes.rest # ""

\* bcrypt.checkpw(password_bytes, hashed): hashes the password with the salt
\* and the cost of the hash and compares
bcrypt_checkpw(password_bytes, hashed) ==
    bcrypt_hashpw(password_bytes, [rounds |-> hashed.rounds,
                                   bytes |-> hashed.salt]) = hashed

\* hash_password: ValueError for an empty password; an exception of bcrypt is
\* logged and raised again
hash_password(password, used, build) ==
    IF password = EmptyPassword
    THEN [raised |-> "ValueError: Password cannot be empty"]
    ELSE IF BcryptRaises(password, build)
    THEN [raised |-> "ValueError"]
    ELSE [raised |-> NULL,
          value |-> bcrypt_hashpw(password, gensalt(BCRYPT_ROUNDS, used))]

\* verify_password: False for an empty argument, False for any exception
verify_password(password, password_hash, build) ==
    IF password = EmptyPassword THEN FALSE
    ELSE IF BcryptRaises(password, build) THEN FALSE
    ELSE bcrypt_checkpw(password, password_hash)

HashPassword(password, build) ==
    LET hashed == hash_password(password, hashes, build)
    IN  /\ Cardinality(hashes) < MaxHashes
        /\ result' = [op |-> "hash_password", password |-> password] @@ hashed
        /\ hashes' = IF hashed.raised = NULL
                     THEN hashes \cup {[password |-> password,
                                        hash |-> hashed.value]}
                     ELSE hashes
        /\ UNCHANGED <<grants, now, revoked, tokens, sessions, logged_out, calls>>

VerifyPassword(password, password_hash, build) ==
    /\ result' = [op |-> "verify_password", password |-> password,
                  password_hash |-> password_hash,
                  value |-> verify_password(password, password_hash, build)]
    /\ UNCHANGED <<grants, now, revoked, tokens, sessions, logged_out, hashes, calls>>

\* ------------------------------------------------------------------------
\* Specification of the password store: any sequence of hash_password and
\* verify_password calls, the hashes verified being ones hash_password made
\* ------------------------------------------------------------------------
PasswordInputs ==
    {EmptyPassword, ShortPassword("a"), ShortPassword("b"),
     LongPassword(""), LongPassword("x"), LongPassword("y")}

InitPw ==
    /\ grants = <<>>
    /\ now = 0
    /\ result = [op |-> "none"]
    /\ revoked = {}
    /\ tokens = <<>> /\ sessions = <<>> /\ logged_out = {} /\ hashes = {}
    /\ calls = <<>>

Hash ==
    \E password \in PasswordInputs, build \in BcryptBuilds :
        HashPassword(password, build)

VerifyHash ==
    \E password \in PasswordInputs, stored \in hashes, build \in BcryptBuilds :
        VerifyPassword(password, stored.hash, build)

NextPw == Hash \/ VerifyHash

SpecPw == InitPw /\ [][NextPw]_vars

\* ------------------------------------------------------------------------
\* Concurrent grants: grant_permission runs its admin check, its query for an
\* existing grant and its insert as three separate requests to the store, with
\* no transaction and no lock around them, so that the requests of two calls
\* in progress interleave in any order
\* ------------------------------------------------------------------------
\* the callers, each making one grant_permission call
Procs == {"first", "second"}

NotCalled == [pc |-> "idle"]

Returned(args, success, permission_id, error) ==
    [pc |-> "returned", args |-> args, success |-> success,
     permission_id |-> permission_id, error |-> error]

\* the level test and the admin check of the granter
GrantAuthorize(p, user_id, permission_level, granted_by, company, category) ==
    LET args == [user_id |-> user_id, permission_level |-> permission_level,
                 granted_by |-> granted_by, company |-> company,
                 category |-> category]
        error == IF permission_level \notin DOMAIN PERMISSION_LEVELS
                 THEN "InvalidLevel"
                 ELSE IF ~check_permission(grants, granted_by, "admin", company,
                                           category, now)
                 THEN "Forbidden"
                 ELSE NULL
    IN  /\ calls[p].pc = "idle"
        /\ IF error # NULL
           THEN /\ calls' = [calls EXCEPT ![p] = Returned(args, FALSE, 0, error)]
                /\ result' = [op |-> "grant", success |-> FALSE,
                              permission_id |-> 0, error |-> error]
           ELSE /\ calls' = [calls EXCEPT ![p] = [pc |-> "authorized",
                                                  args |-> args]]
                /\ result' = result
        /\ UNCHANGED <<grants, now, revoked, tokens, sessions, logged_out, hashes>>

\* existing = get_user_permissions(user_id, company, category, permission_level)
GrantFindExisting(p) ==
    /\ calls[p].pc = "authorized"
    /\ LET args == calls[p].args
           existing == get_user_permissions(grants, args.user_id, args.company,
                                            args.category, args.permission_level)
       IN  IF existing # <<>>
           THEN /\ calls' = [calls EXCEPT ![p] =
                                Returned(args, FALSE, 0, "Duplicate")]
                /\ result' = [op |-> "grant", success |-> FALSE,
                              permission_id |-> 0, error |-> "Duplicate"]
           ELSE /\ calls' = [calls EXCEPT ![p] = [pc |-> "unique",
                                                  args |-> args]]
                /\ result' = result
    /\ UNCHANGED <<grants, now, revoked, tokens, sessions, logged_out, hashes>>

\* insert_rows of the new row, and the return of its id
GrantInsert(p) ==
    /\ calls[p].pc = "unique"
    /\ LET args == calls[p].args
           id == FreshId(grants)
       IN  /\ grants' = Append(grants,
                   NewGrant(id, args.user_id, args.company, args.category,
                            args.permission_level, args.granted_by, now, NoTime,
                            NULL))
           /\ calls' = [calls EXCEPT ![p] = Returned(args, TRUE, id, NULL)]
           /\ result' = [op |-> "grant", success |-> TRUE, permission_id |-> id,
                         error |-> NULL]
    /\ UNCHANGED <<now, revoked, tokens, sessions, logged_out, hashes>>

\* ------------------------------------------------------------------------
\* Specification of the concurrent grants: the table after create_admin.py
\* and two callers
\* ------------------------------------------------------------------------
RaceCompanyInputs == {NULL, "A"}
RaceCategoryInputs == {NULL, "S"}

InitRace ==
    /\ grants = <<grant_super_admin_permission(1, "u1", 0)>>
    /\ now = 0
    /\ result = [op |-> "none"]
    /\ revoked = {}
    /\ tokens = <<>> /\ sessions = <<>> /\ logged_out = {} /\ hashes = {}
    /\ calls = [p \in Procs |-> NotCalled]

Authorize ==
    \E p \in Procs, user_id \in GranteeInputs,
       permission_level \in GrantLevelInputs, granted_by \in Users,
       company \in RaceCompanyInputs, category \in RaceCategoryInputs :
        GrantAuthorize(p, user_id, permission_level, granted_by, company, category)

FindExisting == \E p \in Procs : GrantFindExisting(p)

Insert == \E p \in Procs : GrantInsert(p)

NextRace == Authorize \/ FindExisting \/ Insert

SpecRace == InitRace /\ [][NextRace]_vars

\* ------------------------------------------------------------------------
\* Auth gateway (auth_middleware.py) and the permission check it imports
\* (permissions_firestore.check_permission)
\* ------------------------------------------------------------------------
\* the Firestore collection 'permissions' holding the grants of a table: the
\* fields the check reads, the company stored under 'company_id'
permissions_collection(table) ==
    {[user_id |-> table[i].user_id, is_active |-> table[i].is_active,
      permission_level |-> table[i].permission_level,
      company_id |-> table[i].company, category |-> table[i].category,
      permission_id |-> table[i].permission_id] : i \in 1..Len(table)}

\* level_hierarchy of permissions_firestore, and level_hierarchy.get(level, 0)
level_hierarchy == [view |-> 1, edit |-> 2, admin |-> 3]

HierarchyValue(level) ==
    IF level \in DOMAIN level_hierarchy THEN level_hierarchy[level] ELSE 0

\* one iteration of the loop of permissions_firestore.check_permission: the
\* document reaches `return True`; `if company and ...` is false for None
FirestorePermAllows(perm, required_level_value, company, category) ==
    /\ ~(HierarchyValue(perm.permission_level) < required_level_value)
    /\ \/ (perm.company_id = NULL /\ perm.category = NULL)
       \/ /\ ~(/\ company # NULL /\ perm.company_id # NULL
               /\ perm.company_id # company)
          /\ ~(/\ category # NULL /\ perm.category # NULL
               /\ perm.category # category)

\* permissions_firestore.check_permission: the query selects the active
\* documents of the user; the first document that allows returns True, so the
\* order of the stream does not matter
permissions_firestore_check_permission(collection, user_id, required_level, company, category) ==
    LET permissions == {perm \in collection :
                            perm.user_id = user_id /\ perm.is_active}
    IN  IF permissions = {} THEN FALSE
        ELSE \E perm \in permissions :
                 FirestorePermAllows(perm, HierarchyValue(required_level),
                                     company, category)

\* the Authorization header of a request
NoHeader == [scheme |-> "none"]
Bearer(token) == [scheme |-> "Bearer", token |-> token]

\* extract_user_from_request: (success, user_data, error_response), with the
\* calls it has made
extract_user_from_request(header, t) ==
    IF header.scheme # "Bearer"
    THEN [success |-> FALSE, called |-> <<>>,
          error |-> "Missing or invalid Authorization header"]
    ELSE LET verified == verify_token(header.token, "access", t)
         IN  IF ~verified.valid
             THEN [success |-> FALSE, called |-> <<"verify_token">>,
                   error |-> verified.error]
             ELSE [success |-> TRUE, called |-> <<"verify_token">>,
                   user |-> [user_id |-> Get(verified.payload, "user_id"),
                             email |-> Get(verified.payload, "email"),
                             token_payload |-> verified.payload]]

\* variant of the wrapper's test that lets every authenticated request through
Denied_Never(has_permission) == FALSE

\* if not has_permission: return forbidden_response(...)
Denied(has_permission) == ~has_permission

\* the wrapper of require_permission(required_level, company, category) around
\* a handler, for one request: a request that fails authentication is answered
\* before the scope is looked at; a store that fails makes check_permission
\* raise, which the wrapper does not catch
RequirePermission(header, required_level, company, category, store_ok) ==
    LET extracted == extract_user_from_request(header, now)
    IN  /\ IF ~extracted.success
           THEN result' = [op |-> "require_permission", status |-> 401,
                           called |-> extracted.called,
                           is_valid |-> FALSE, error |-> extracted.error]
           ELSE LET called == Append(extracted.called, "check_permission")
                    user_id == extracted.user.user_id
                    has_permission ==
                        permissions_firestore_check_permission(
                            permissions_collection(grants), user_id,
                            required_level, company, category)
                    request == [op |-> "require_permission",
                                is_valid |-> TRUE, user_id |-> user_id,
                                required_level |-> required_level,
                                company |-> company, category |-> category]
                IN  IF ~store_ok
                    THEN result' = [status |-> 500, called |-> called] @@ request
                    ELSE IF Denied(has_permission)
                    THEN result' = [status |-> 403, called |-> called,
                                    has_permission |-> has_permission] @@ request
                    ELSE result' = [status |-> 200,
                                    called |-> Append(called, "handler"),
                                    has_permission |-> has_permission] @@ request
        /\ (~extracted.success => store_ok)
        /\ UNCHANGED <<grants, now, revoked, authvars>>

\* ------------------------------------------------------------------------
\* Specification of the gateway: any table of up to MaxPerms grants of one
\* user, mirrored in the Firestore collection, read at any instant up to
\* MaxTime; requests carry a token generate_access_token has issued now or at
\* instant 0, a string that is no token, or no header
\* ------------------------------------------------------------------------
GateShapes ==
    [user_id : EvalUsers, permission_level : {"edit"}, company : {NULL, "A"},
     category : {NULL, "S"}, expires_at : EvalExpiry, is_revoked : BOOLEAN]

GateLevelInputs == {"view", "admin"}

\* the (company, category) a decorated endpoint names
GateScopeInputs ==
    {<<NULL, NULL>>, <<"A", "S">>, <<"A", "T">>, <<"B", "S">>}

RequestHeaders(t) ==
    {NoHeader,
     Bearer(generate_access_token("u1", Email("u1"), NoClaims, t, 1)),
     Bearer(generate_access_token("u1", Email("u1"), NoClaims, 0, 1)),
     Bearer(GarbageToken)}

InitGate ==
    /\ \E n \in 0..MaxPerms :
           \E f \in [1..n -> {r \in GateShapes :
                                  r.is_revoked => r.expires_at = NoTime}] :
               grants = EvalTable(f)
    /\ now \in 0..MaxTime
    /\ result = [op |-> "none"]
    /\ revoked = {i \in 1..Len(grants) : ~grants[i].is_active}
    /\ tokens = <<>> /\ sessions = <<>> /\ logged_out = {} /\ hashes = {}
    /\ calls = <<>>

Request ==
    \E header \in RequestHeaders(now), required_level \in GateLevelInputs,
       scope \in GateScopeInputs, store_ok \in BOOLEAN :
        RequirePermission(header, required_level, scope[1], scope[2], store_ok)

NextGate == Request

SpecGate == InitGate /\ [][NextGate]_vars

\* ========================================================================
\* Properties
\* ========================================================================
RowIds(table) == {table[i].permission_id : i \in 1..Len(table)}

RowsOf(table, user_id) == {i \in 1..Len(table) : table[i].user_id = user_id}

\* the data model's definition: active, and no expiry or an expiry after now
Effective(row, t) ==
    /\ row.is_active
    /\ (row.expires_at = NoTime \/ row.expires_at[1] > t)

\* active, and no expiry or an expiry not earlier than now
Usable(row, t) ==
    /\ row.is_active
    /\ (row.expires_at = NoTime \/ row.expires_at[1] >= t)

\* scope (gc, gk) of a grant is equal to or broader than scope (c, k)
ScopeCovers(gc, gk, c, k) ==
    \/ (gc = NULL /\ gk = NULL)
    \/ (gc # NULL /\ gk = NULL /\ c = gc)
    \/ (gc # NULL /\ gk # NULL /\ c = gc /\ k = gk)

HoldsCoveringAdmin(table, user_id, c, k, t) ==
    \E i \in RowsOf(table, user_id) :
        /\ Effective(table[i], t)
        /\ table[i].permission_level = "admin"
        /\ ScopeCovers(table[i].company, table[i].category, c, k)

RequestCompanies == {NULL} \cup Companies
RequestCategories == {NULL} \cup Categories

\* C1: grant_permission inserts a grant only if, at call time, the granter
\* holds an effective admin grant whose scope is equal to or broader than the
\* scope being granted; a company-scoped admin can never create a grant with
\* company = NULL or for another company.
C1_GrantNeedsCoveringAdmin ==
    [][Len(grants') > Len(grants) =>
        LET g == grants'[Len(grants')]
        IN  HoldsCoveringAdmin(grants, g.granted_by, g.company, g.category, now)]_vars

\* C2: there are never two active grants for the same (user_id, company,
\* category) triple, whatever their levels.
C2_NoTwoActiveGrantsPerTriple ==
    \A i, j \in 1..Len(grants) :
        (i # j /\ grants[i].is_active /\ grants[j].is_active)
        => ~(/\ grants[i].user_id = grants[j].user_id
             /\ grants[i].company = grants[j].company
             /\ grants[i].category = grants[j].category)

\* C3: a revoke_permission call for an id that was already revoked
\* successfully, or that never existed, returns NotFound and not success.
C3_SecondRevokeIsNotFound ==
    [][(/\ result'.op = "revoke"
        /\ (result'.permission_id \in revoked
            \/ result'.permission_id \notin RowIds(grants)))
       => (~result'.success /\ result'.error = "NotFound")]_vars

\* C4: once revoke_permission(id) has succeeded, grant id satisfies no
\* check_permission call, for any level and any requested scope; if every
\* grant of the user has been revoked, check_permission returns false for
\* that user.
C4_RevokedGrantNeverSatisfies ==
    \A i \in 1..Len(grants) :
        grants[i].permission_id \in revoked =>
            /\ \A lvl \in LevelInputs, c \in RequestCompanies, k \in RequestCategories :
                   ~PermAllows(grants[i], LevelValue(lvl), c, k, now)
            /\ (\A j \in RowsOf(grants, grants[i].user_id) :
                    grants[j].permission_id \in revoked)
               => \A lvl \in LevelInputs, c \in RequestCompanies,
                     k \in RequestCategories :
                      ~check_permission(grants, grants[i].user_id, lvl, c, k, now)

\* C4 witness: revoke_permission has just succeeded on the only grant of a
\* user, a grant that satisfied checks while it was active.
C4_Witness ==
    /\ result.op = "revoke" /\ result.success
    /\ \E i \in 1..Len(grants) :
        /\ grants[i].permission_id = result.permission_id
        /\ grants[i].permission_id \in revoked
        /\ RowsOf(grants, grants[i].user_id) = {i}
        /\ grants[i].permission_level = "admin"
        /\ grants[i].company = NULL /\ grants[i].category = NULL

\* C5: is_super_admin(user) is true only if the user holds an effective admin
\* grant with company and category both NULL; a user whose admin grants are
\* all scoped to a company is not a super admin.
C5_SuperAdminNeedsNullScope ==
    \A u \in Users :
        is_super_admin(grants, u, now) =>
            \E i \in RowsOf(grants, u) :
                /\ Effective(grants[i], now)
                /\ grants[i].permission_level = "admin"
                /\ grants[i].company = NULL /\ grants[i].category = NULL

\* the rows of user_id that are effective (data model) / usable at instant t
EffectiveRows(table, user_id, t) ==
    {i \in RowsOf(table, user_id) : Effective(table[i], t)}

UsableRows(table, user_id, t) ==
    {i \in RowsOf(table, user_id) : Usable(table[i], t)}

\* C6: hierarchy monotonicity: whenever check_permission is true for edit or
\* admin on a scope it is true for view on that scope, and whenever it is true
\* for admin it is true for edit.
C6_HierarchyMonotone ==
    \A u \in Users, c \in RequestCompanies, k \in RequestCategories :
        LET cp(lvl) == check_permission(grants, u, lvl, c, k, now)
        IN  /\ (cp("edit") \/ cp("admin")) => cp("view")
            /\ cp("admin") => cp("edit")

\* C6 witness: an edit check has just succeeded for a user who holds no grant
\* at view level.
C6_Witness ==
    /\ result.op = "check" /\ result.value
    /\ result.required_level = "edit"
    /\ \A i \in RowsOf(grants, result.user_id) :
           grants[i].permission_level # "view"

NoLeak(only) ==
    (result.op = "check" /\ result.required_level \in LevelNames) =>
        \A i \in only :
            (/\ only = {i}
             /\ grants[i].company # NULL /\ grants[i].category # NULL
             /\ \/ /\ result.company = grants[i].company
                   /\ result.category \in Categories \ {grants[i].category}
                \/ /\ result.company \in Companies \ {grants[i].company}
                   /\ result.category = grants[i].category)
            => ~result.value

C9_ExpiredNeverSatisfies ==
    LET Expired(row) == row.expires_at # NoTime /\ row.expires_at[1] < now
    IN  \A i \in 1..Len(grants) :
            Expired(grants[i]) =>
                /\ \A lvl \in LevelInputs, c \in RequestCompanies,
                      k \in RequestCategories :
                       ~PermAllows(grants[i], LevelValue(lvl), c, k, now)
                /\ (\A j \in RowsOf(grants, grants[i].user_id) : Expired(grants[j]))
                   => \A lvl \in LevelInputs, c \in RequestCompanies,
                         k \in RequestCategories :
                          ~check_permission(grants, grants[i].user_id, lvl, c, k, now)

\* C9 witness: a view check has just been denied to a user whose only grant
\* is an active super-admin grant with expires_at before now.
C9_Witness ==
    /\ result.op = "check" /\ ~result.value
    /\ result.required_level = "view"
    /\ Len(grants) = 1
    /\ grants[1].user_id = result.user_id
    /\ grants[1].is_active
    /\ grants[1].permission_level = "admin"
    /\ grants[1].company = NULL /\ grants[1].category = NULL
    /\ grants[1].expires_at # NoTime /\ grants[1].expires_at[1] < now

\* the company-wide edit grant for the check_permission call just made,
\* `only` being the rows of the checked user that count as its grants
CompanyWideEdit(only) ==
    (result.op = "check" /\ result.required_level \in LevelNames) =>
        \A i \in only :
            (/\ only = {i}
             /\ grants[i].permission_level = "edit"
             /\ grants[i].company # NULL /\ grants[i].category = NULL)
            => /\ (/\ result.required_level \in {"view", "edit"}
                   /\ result.company = grants[i].company)
                  => result.value
               /\ result.required_level = "admin" => ~result.value
               /\ result.company \in Companies \ {grants[i].company}
                  => ~result.value

C11_ExistingTripleIsDuplicate ==
    [][Len(grants') > Len(grants) =>
        LET g == grants'[Len(grants')]
        IN  ~\E i \in RowsOf(grants, g.user_id) :
                /\ Effective(grants[i], now)
                /\ grants[i].company = g.company
                /\ grants[i].category = g.category]_vars

\* C12: get_highest_permission_level(user_id) returns the maximum level by
\* rank over the user's effective grants only (active and not expired), and
\* null when the user has no effective grant; an active but expired grant does
\* not count.
C12_HighestOverEffective ==
    result.op = "highest" =>
        LET eff == EffectiveRows(grants, result.user_id, now)
        IN  IF eff = {} THEN result.value = NULL
            ELSE /\ \E i \in eff : grants[i].permission_level = result.value
                 /\ \A i \in eff : LevelValue(grants[i].permission_level)
                                       <= LevelValue(result.value)

\* the tokens a given function has issued
IssuedBy(function) ==
    {tokens[i].token : i \in {j \in 1..Len(tokens) : tokens[j].issued_by = function}}

\* C13: token type isolation: a token issued by generate_access_token always
\* fails verify_token(token, 'refresh') with the type-mismatch error, and a
\* token issued by generate_refresh_token always fails
\* verify_token(token, 'access') with the type-mismatch error, whatever the
\* state of its session.
C13_TokenTypeIsolation ==
    result.op = "verify" =>
        /\ (/\ result.token \in IssuedBy("generate_access_token")
            /\ result.token_type = "refresh")
           => (~result.valid /\ result.error = InvalidTokenType["refresh"])
        /\ (/\ result.token \in IssuedBy("generate_refresh_token")
            /\ result.token_type = "access")
           => (~result.valid /\ result.error = InvalidTokenType["access"])

\* the sessions of a user that are active
ActiveSessionsOf(collection, user_id) ==
    {i \in 1..Len(collection) :
        collection[i].user_id = user_id /\ collection[i].is_active}

\* a refresh token whose session existed when revoke_all_user_sessions was
\* called for its user
LoggedOutToken(token, ids) ==
    /\ token \in IssuedBy("generate_refresh_token")
    /\ token.payload.sid \in ids

\* C14 (as stated): revoke_all_user_sessions(U) returns the number of U's
\* sessions that were active, and every later verify_token(token, 'refresh')
\* for a token issued to U before the call fails with "Session has been
\* revoked".
C14_LogoutEverywhere_Always ==
    [][/\ result'.op = "revoke_all_user_sessions"
          => result'.value = Cardinality(ActiveSessionsOf(sessions, result'.user_id))
       /\ (/\ result'.op = "verify"
           /\ result'.token_type = "refresh"
           /\ LoggedOutToken(result'.token, logged_out))
          => (~result'.valid /\ result'.error = "Session has been revoked")]_vars

\* C14 (amended): the same count, and every later verify_token(token,
\* 'refresh') for such a token fails, with "Session has been revoked" as long
\* as the token itself has not reached its exp.
C14_LogoutEverywhere ==
    [][/\ result'.op = "revoke_all_user_sessions"
          => result'.value = Cardinality(ActiveSessionsOf(sessions, result'.user_id))
       /\ (/\ result'.op = "verify"
           /\ result'.token_type = "refresh"
           /\ LoggedOutToken(result'.token, logged_out))
          => /\ ~result'.valid
             /\ result'.token.payload.exp > now
                => result'.error = "Session has been revoked"]_vars

\* C14 witness: a refresh token of a user has just been refused with "Session
\* has been revoked", its session being the one session that
\* revoke_all_user_sessions made inactive for that user.
C14_Witness ==
    /\ result.op = "verify" /\ result.token_type = "refresh"
    /\ LoggedOutToken(result.token, logged_out)
    /\ ~result.valid /\ result.error = "Session has been revoked"
    /\ Len(sessions) = 1
    /\ ~sessions[1].is_active
    /\ sessions[1].session_id = result.token.payload.sid

\* C15: revoke_token(session_id) returns true only when a session row was
\* changed from active to inactive by this call; it returns false when no
\* session with that id exists and when the session was already revoked.
C15_RevokeTokenReportsChange ==
    [][result'.op = "revoke_token" =>
        (result'.value <=>
            \E i \in 1..Len(sessions) :
                /\ sessions[i].session_id = result'.session_id
                /\ sessions[i].is_active
                /\ ~sessions'[i].is_active)]_vars

\* the session documents a token's session id names
SessionsNamedBy(token) ==
    {i \in 1..Len(sessions) :
        /\ "sid" \in DOMAIN token.payload
        /\ sessions[i].session_id = token.payload.sid}

\* C16: verify_token(token, 'refresh') never returns valid when the session
\* named by the token's session id does not exist, is inactive, is past its
\* expires_at, or stores a token_hash other than the hash of the presented
\* token.
C16_RefreshNeedsLiveSession ==
    (result.op = "verify" /\ result.token_type = "refresh" /\ result.valid) =>
        \E i \in SessionsNamedBy(result.token) :
            /\ sessions[i].is_active
            /\ ~(sessions[i].expires_at[1] < now)
            /\ sessions[i].token_hash = sha256(result.token)

\* C16 witness: a correctly signed, unexpired token of type refresh has just
\* been refused as a refresh token while the session it names is active and
\* unexpired but stores the hash of another token.
C16_Witness ==
    /\ result.op = "verify" /\ result.token_type = "refresh" /\ ~result.valid
    /\ result.token.kind = "jwt"
    /\ result.token.signature = Sign(result.token.payload, JWT_SECRET_KEY)
    /\ result.token.payload.exp > now
    /\ result.token.payload.type = "refresh"
    /\ \E i \in SessionsNamedBy(result.token) :
        /\ sessions[i].is_active
        /\ sessions[i].expires_at[1] > now
        /\ sessions[i].token_hash # sha256(result.token)

\* C20: a refresh token returned by generate_refresh_token is valid until
\* something ends it: as long as its session has not been revoked and neither
\* the token nor the session has expired, verify_token(token, 'refresh')
\* returns valid with the token's claims.
C20_RefreshTokenValidUntilEnded ==
    (/\ result.op = "verify" /\ result.token_type = "refresh"
     /\ result.token \in IssuedBy("generate_refresh_token")
     /\ result.token.payload.exp > now
     /\ \E i \in SessionsNamedBy(result.token) :
            sessions[i].is_active /\ sessions[i].expires_at[1] > now)
    => (result.valid /\ result.payload = result.token.payload)

\* the rows get_user_permissions returns for a user, newest first, that are
\* reached by the loop of check_permission before any row allows the request
ReachedRows(permissions, required_level, company, category, t) ==
    {i \in 1..Len(permissions) :
        \A j \in 1..(i - 1) :
            /\ ~Raises(permissions[j])
            /\ ~PermAllows(permissions[j], LevelValue(required_level), company,
                           category, t)}

\* C17 (as stated): whenever fetching the user's grants fails or a grant
\* record is malformed, check_permission returns false (and never raises).
C17_FailsClosed_AnyMalformed ==
    result.op = "check" =>
        ((\/ ~result.store_ok
          \/ \E i \in RowsOf(grants, result.user_id) : Len(grants[i].expires_at) > 1)
         => ~result.value)

\* C17 (amended): whenever fetching the user's grants fails, or the
\* evaluation reaches a malformed grant record (one whose evaluation raises)
\* before a grant that allows the request, check_permission returns false.
C17_FailsClosed ==
    result.op = "check" =>
        LET permissions == get_user_permissions(grants, result.user_id, NULL,
                                                NULL, NULL)
        IN  (\/ ~result.store_ok
             \/ \E i \in ReachedRows(permissions, result.required_level,
                                     result.company, result.category, now) :
                    Raises(permissions[i]))
            => ~result.value

\* C17 witness: an admin check has just been denied, the store having
\* answered, to a user whose newest grant is active with a malformed
\* expires_at and whose older grant is an active super-admin grant.
C17_Witness ==
    /\ result.op = "check" /\ result.store_ok /\ ~result.value
    /\ result.required_level = "admin"
    /\ Len(grants) = 2
    /\ Raises(grants[2])
    /\ grants[1].is_active /\ grants[1].expires_at = NoTime
    /\ grants[1].permission_level = "admin"
    /\ grants[1].company = NULL /\ grants[1].category = NULL

\* C18: the POST /permissions/revoke endpoint is admin only: a grant is made
\* inactive through it only when the authenticated caller (recorded as
\* revoked_by) holds an admin permission; a caller with no admin grant cannot
\* make any grant inactive.
C18_RevokeNeedsAdmin ==
    [][\A i \in 1..Len(grants) :
          (grants[i].is_active /\ ~grants'[i].is_active) =>
              \E j \in RowsOf(grants, grants'[i].revoked_by) :
                  /\ Usable(grants[j], now)
                  /\ grants[j].permission_level = "admin"]_vars

\* C19: password round trip: for every non-empty password p,
\* verify_password(p, hash_password(p)) is true and verify_password(q,
\* hash_password(p)) is false for q different from p; two calls of
\* hash_password(p) return different strings.
C19_PasswordRoundTrip ==
    /\ (result.op = "hash_password" /\ result.password # EmptyPassword)
       => result.raised = NULL
    /\ result.op = "verify_password"
       => \A stored \in hashes :
              stored.hash = result.password_hash
              => (result.value <=> result.password = stored.password)
    /\ \A x, y \in hashes : x # y => x.hash # y.hash

\* the errors of a token that has expired or whose session is not active
EndedErrors == {"Token has expired", "Session has been revoked"}

\* C21: no transition back to valid: once verify_token has failed for a token
\* because it expired or because its session was revoked, every later
\* verify_token for the same token also fails, under any sequence of issue,
\* revoke, revoke-all and cleanup operations; sessions only ever move from
\* active to revoked (and no session document disappears).
C21_NoWayBackToValid ==
    [][/\ \A token \in PresentedTokens, token_type \in TokenTypeInputs :
              verify_token(token, token_type, now).error \in EndedErrors
              => ~verify_token(token, token_type, now').valid
       /\ Len(sessions') >= Len(sessions)
       /\ \A i \in 1..Len(sessions) :
              /\ sessions'[i].session_id = sessions[i].session_id
              /\ ~sessions[i].is_active => ~sessions'[i].is_active]_vars

\* C21 witness: an access token that was already past its exp a day ago has
\* just been refused again as expired, the one session there is having been
\* revoked on a day after its creation.
C21_Witness ==
    /\ result.op = "verify" /\ ~result.valid
    /\ result.error = "Token has expired"
    /\ result.token \in IssuedBy("generate_access_token")
    /\ result.token.payload.exp < now
    /\ Len(sessions) = 1
    /\ ~sessions[1].is_active
    /\ sessions[1].revoked_at[1] > sessions[1].created_at

\* C22: a revoked grant is immutable history: once a grant has is_active
\* false, no later operation (another revoke_permission on the same id by a
\* different caller included) changes any of its fields, and the row is never
\* deleted.
C22_RevokedGrantImmutable ==
    [][/\ Len(grants') >= Len(grants)
       /\ \A i \in 1..Len(grants) :
              ~grants[i].is_active => grants'[i] = grants[i]]_vars

\* C23: grant then check: after grant_permission(user, level, granted_by,
\* company, category) has succeeded with expires_at null or in the future,
\* check_permission(user, level, company, category) returns true for that
\* level and scope until the grant is revoked or expires, for every scope
\* shape the grant call accepts, company = NULL with a category included.
C23_GrantThenCheck ==
    \A i \in 1..Len(grants) :
        Effective(grants[i], now) =>
            check_permission(grants, grants[i].user_id, grants[i].permission_level,
                             grants[i].company, grants[i].category, now)

\* C24: grant_permission with a valid level and an authorized granter does
\* not fail with Duplicate when the target user has no effective grant for the
\* exact (user_id, company, category) triple: a revoked or expired grant, or a
\* grant on a broader scope at the same level, does not block the new grant.
C24_DuplicateOnlyForEffectiveTriple ==
    \A user_id \in GranteeInputs, permission_level \in LevelNames,
       granted_by \in Users, company \in CompanyInputs,
       category \in CategoryInputs :
        GrantOutcome(grants, user_id, permission_level, granted_by, company,
                     category, now) = "Duplicate"
        => \E i \in EffectiveRows(grants, user_id, now) :
               /\ grants[i].company = company
               /\ grants[i].category = category

\* the calls that have returned success
Succeeded == {p \in Procs : calls[p].pc = "returned" /\ calls[p].success}

\* C25: when two grant_permission calls for the same (user_id, company,
\* category) and the same level run concurrently, each made by an authorized
\* granter, at most one of them succeeds and at most one active grant for that
\* triple exists afterwards.
C25_ConcurrentGrantsExclude ==
    /\ \A p, q \in Succeeded :
           (/\ calls[p].args.user_id = calls[q].args.user_id
            /\ calls[p].args.company = calls[q].args.company
            /\ calls[p].args.category = calls[q].args.category
            /\ calls[p].args.permission_level = calls[q].args.permission_level)
           => p = q
    /\ (\A p \in Procs : calls[p].pc = "returned")
       => \A i, j \in 1..Len(grants) :
              (/\ grants[i].is_active /\ grants[j].is_active
               /\ grants[i].user_id = grants[j].user_id
               /\ grants[i].company = grants[j].company
               /\ grants[i].category = grants[j].category
               /\ grants[i].permission_level = grants[j].permission_level)
              => i = j

\* the call just made is answered by the rows `only` of the checked user: it
\* returns true exactly when one of them has the required level or a higher
\* one and a scope that matches the request
AnsweredBy(only) ==
    result.value <=>
        \E i \in only :
            /\ LevelValue(grants[i].permission_level)
                   >= LevelValue(result.required_level)
            /\ ScopeMatches(grants[i].company, grants[i].category,
                            result.company, result.category)

C28_UnknownLevelDenied ==
    (result.op = "check" /\ result.required_level \notin LevelNames)
    => ~result.value

\* C27: the permission check the gateway runs (permissions_firestore
\* check_permission, called by require_permission) returns the same decision
\* as the evaluator permissions_utils.check_permission for every grant set,
\* required level and requested (company, category).
C27_GatewayCheckAgrees ==
    (result.op = "require_permission" /\ result.status \in {200, 403}) =>
        result.has_permission =
            check_permission(grants, result.user_id, result.required_level,
                             result.company, result.category, now)

\* the functions the wrapper has called for the request just answered
Called == {result.called[i] : i \in 1..Len(result.called)}

Decodes(token, t) ==
    /\ token.kind = "jwt"
    /\ token.signature = Sign(token.payload, JWT_SECRET_KEY)
    /\ token.payload.exp > t

\* C30: verifying an access token reads and writes no session state, so
\* revoking a session or all sessions of a user leaves every access token
\* already issued to that user valid until its own expiry: whatever the
\* sessions are, verify_token(token, 'access') is valid exactly when the token
\* decodes and is of type access, and the call leaves the sessions as they are.
C30_AccessTokenIgnoresSessions ==
    [][(result'.op = "verify" /\ result'.token_type = "access") =>
          /\ sessions' = sessions
          /\ result'.valid <=>
                 /\ Decodes(result'.token, now)
                 /\ Get(result'.token.payload, "type") = "access"]_vars

\* C30 witness: an access token of a user has just been verified as valid
\* after revoke_all_user_sessions has made a session of that user inactive.
C30_Witness ==
    /\ result.op = "verify" /\ result.token_type = "access" /\ result.valid
    /\ result.token \in IssuedBy("generate_access_token")
    /\ \E i \in 1..Len(sessions) :
        /\ sessions[i].user_id = result.token.payload.user_id
        /\ ~sessions[i].is_active
        /\ sessions[i].session_id \in logged_out

====
